---------------------------- MODULE Spec2Model ----------------------------
(***************************************************************************)
(* A model of gmm.py: the GMM wrapper (GMMComponents, GMMEvalData, GMM)    *)
(* around scikit-learn's GaussianMixture, and compute_distance_BIC.        *)
(*                                                                         *)
(* Numbers.  Reals are kept exact as integers over a denominator: an array *)
(* is [shape, data, den] and its i-th entry is data[i]/den, stored         *)
(* row-major as numpy does.  random() draws from [0,1), here the grid      *)
(* 0/WUnit .. (WUnit-1)/WUnit.                                             *)
(*                                                                         *)
(* scikit-learn.  The estimator the wrapper delegates to is not part of    *)
(* the repository.  Its interface is modelled as the wrapper uses it: which*)
(* arguments the constructor is given, which checks fit/score_samples make *)
(* on their input, the shapes of weights_, means_ and covariances_, the    *)
(* iteration budget max_iter, warm_start.  Its numerics (the Gaussian      *)
(* density, the EM update) are integer surrogates: deterministic functions *)
(* of the same arguments the real ones depend on.                          *)
(***************************************************************************)
EXTENDS Integers, Sequences, FiniteSets, TLC

VARIABLES
    gmm,    \* the two GMM objects a caller holds, named as compute_distance_BIC names them
    call    \* the last call made: its arguments, its outcome and what it returned

vars == <<gmm, call>>

Mixtures == {"gmm1", "gmm2"}

\* ---- bounds of the model ----
MaxM == 2        \* component counts 1..MaxM
MaxD == 2        \* feature counts 1..MaxD
MaxN == 3        \* observations per batch 1..MaxN
MaxIters == 2    \* iteration budgets 1..MaxIters
WUnit == 2       \* random() and fitted weights are multiples of 1/WUnit

\* ---- program constants ----
cvtype_name_list == {"diag", "full"}

\* ------------------------------------------------------------------------
\* numpy arrays
\* ------------------------------------------------------------------------
RECURSIVE Prod(_)
Prod(s) == IF s = <<>> THEN 1 ELSE Head(s) * Prod(Tail(s))

RECURSIVE SumSeq(_)
SumSeq(s) == IF s = <<>> THEN 0 ELSE Head(s) + SumSeq(Tail(s))

RECURSIVE ProdSeq(_)
ProdSeq(s) == IF s = <<>> THEN 1 ELSE Head(s) * ProdSeq(Tail(s))

Arr(shape, data, den) == [shape |-> shape, data |-> data, den |-> den]

\* the argument value None
NoArr == Arr(<<0>>, <<>>, 1)

\* numpy.random.random(shape): every entry in [0,1); r is the draw
random(shape, r) ==
    Arr(shape, [i \in 1..Prod(shape) |-> (i + r) % WUnit], WUnit)

\* np.zeros(shape)
zeros(shape) == Arr(shape, [i \in 1..Prod(shape) |-> 0], 1)

\* np.resize(a, n): a flat array of n entries, a's entries repeated as needed
np_resize(a, n) ==
    Arr(<<n>>, [i \in 1..n |-> a.data[((i - 1) % Len(a.data)) + 1]], a.den)

\* scalar * array, the scalar being num/den
scale(num, den, a) ==
    Arr(a.shape, [i \in 1..Len(a.data) |-> num * a.data[i]], den * a.den)

\* np.append(a, b): both flattened, then joined
np_append_flat(a, b) ==
    Arr(<<Len(a.data) + Len(b.data)>>,
        [i \in 1..Len(a.data) |-> a.data[i] * b.den] \o
        [i \in 1..Len(b.data) |-> b.data[i] * a.den],
        a.den * b.den)

\* np.append(a, b, axis=0) raises unless a and b have the same number of
\* dimensions and agree on every dimension but the first
np_append_axis0_raises(a, b) ==
    \/ Len(a.shape) # Len(b.shape)
    \/ Tail(a.shape) # Tail(b.shape)

np_append_axis0(a, b) ==
    Arr(<<a.shape[1] + b.shape[1]>> \o Tail(a.shape),
        [i \in 1..Len(a.data) |-> a.data[i] * b.den] \o
        [i \in 1..Len(b.data) |-> b.data[i] * a.den],
        a.den * b.den)

\* posteriors.argmax(axis=0) of a 2-d array: for every column the (0-based)
\* index of the first row holding the column's maximum
argmax_axis0(a) ==
    LET rows == a.shape[1]
        cols == a.shape[2]
        at(i, k) == a.data[(i - 1) * cols + k]
        best(k) == CHOOSE i \in 1..rows :
                       /\ \A i2 \in 1..rows : at(i2, k) <= at(i, k)
                       /\ \A i2 \in 1..(i - 1) : at(i2, k) < at(i, k)
    IN  Arr(<<cols>>, [k \in 1..cols |-> best(k) - 1], 1)

\* ------------------------------------------------------------------------
\* observation batches: N rows of cols features
\* ------------------------------------------------------------------------
Batch(N, cols) == [i \in 1..N |-> [j \in 1..cols |-> (i + j) % 2]]

Batches == {Batch(N, cols) : N \in 1..MaxN, cols \in 1..MaxD}

n_rows(X) == Len(X)
n_columns(X) == Len(X[1])


\* ------------------------------------------------------------------------
\* sklearn.mixture.GaussianMixture, as gmm.py uses it
\* ------------------------------------------------------------------------
\* self.clf = None
NoClf ==
    [is_none |-> TRUE, n_components |-> 0, covariance_type |-> "diag",
     max_iter |-> 0, weights_init |-> NoArr, means_init |-> NoArr,
     fitted |-> FALSE, n_features |-> 0,
     weights_ |-> NoArr, means_ |-> NoArr, covariances_ |-> NoArr]

\* GaussianMixture(n_components=, covariance_type=, warm_start=True, max_iter=,
\* weights_init=, means_init=, ...): no precisions_init is ever passed
GaussianMixture(n_components, covariance_type, max_iter, weights_init, means_init) ==
    [NoClf EXCEPT !.is_none = FALSE, !.n_components = n_components,
                  !.covariance_type = covariance_type, !.max_iter = max_iter,
                  !.weights_init = weights_init, !.means_init = means_init]

\* the estimator's check of weights_init: one weight per component, each in
\* [0,1], summing to 1
weights_init_ok(clf) ==
    LET w == clf.weights_init
    IN  /\ w.shape = <<clf.n_components>>
        /\ \A i \in 1..Len(w.data) : 0 <= w.data[i] /\ w.data[i] <= w.den
        /\ SumSeq(w.data) = w.den

\* clf.fit(X) raises: fewer observations than components, initial values of
\* the wrong shape or not normalised, or a warm start on a batch whose
\* feature count differs from the one the estimator was fitted with
fit_raises(clf, X) ==
    \/ n_rows(X) < clf.n_components
    \/ clf.weights_init # NoArr /\ ~weights_init_ok(clf)
    \/ /\ clf.means_init # NoArr
       /\ clf.means_init.shape # <<clf.n_components, n_columns(X)>>
    \/ clf.fitted /\ clf.n_features # n_columns(X)

\* the covariance of one component: ones (diag) or the identity (full),
\* scaled by v
cov_entries(covariance_type, nf, v) ==
    IF covariance_type = "diag"
    THEN [j \in 1..nf |-> v]
    ELSE [e \in 1..(nf * nf) |-> IF (e - 1) \div nf = (e - 1) % nf THEN v ELSE 0]

cov_shape(covariance_type, M, nf) ==
    IF covariance_type = "diag" THEN <<M, nf>> ELSE <<M, nf, nf>>

\* the estimate the estimator holds after n EM iterations on X (n = 0: the
\* initial estimate from the responsibilities drawn under random_state=seed).
\* Weights are multiples of 1/WUnit summing to 1, means are observations,
\* variances are positive.
em_estimate(clf, X, n) ==
    LET M  == clf.n_components
        nf == n_columns(X)
        N  == n_rows(X)
        share(i) == (WUnit \div M) + (IF i <= WUnit % M THEN 1 ELSE 0)
        row(k) == X[((k + n - 1) % N) + 1]
        var(k) == 1 + ((k + n) % 2)
        per == Prod(Tail(cov_shape(clf.covariance_type, M, nf)))
    IN  [weights |-> Arr(<<M>>, [k \in 1..M |-> share(((k + n - 1) % M) + 1)], WUnit),
         means   |-> Arr(<<M, nf>>,
                         [e \in 1..(M * nf) |->
                             row(((e - 1) \div nf) + 1)[((e - 1) % nf) + 1]], 1),
         covars  |-> Arr(cov_shape(clf.covariance_type, M, nf),
                         [e \in 1..(M * per) |->
                             cov_entries(clf.covariance_type, nf,
                                         var(((e - 1) \div per) + 1))[((e - 1) % per) + 1]],
                         1)]

\* the parameters the first E-step of clf.fit(X) reads: on a warm start the
\* fitted ones; otherwise weights_init and means_init where given, and the
\* estimator's own initial estimate for everything else
em_start(clf, X) ==
    IF clf.fitted
    THEN [weights |-> clf.weights_, means |-> clf.means_, covars |-> clf.covariances_]
    ELSE LET own == em_estimate(clf, X, 0)
         IN  [weights |-> IF clf.weights_init # NoArr THEN clf.weights_init ELSE own.weights,
              means   |-> IF clf.means_init # NoArr THEN clf.means_init ELSE own.means,
              covars  |-> own.covars]

\* clf.fit(X) when it does not raise, having run n iterations
fit(clf, X, n) ==
    LET est == em_estimate(clf, X, n)
    IN  [clf EXCEPT !.fitted = TRUE, !.n_features = n_columns(X),
                    !.weights_ = est.weights, !.means_ = est.means,
                    !.covariances_ = est.covars]

\* variance of feature j of component k
comp_var(clf, k, j) ==
    LET nf == clf.n_features
    IN  IF clf.covariance_type = "diag"
        THEN clf.covariances_.data[(k - 1) * nf + j]
        ELSE clf.covariances_.data[(k - 1) * nf * nf + (j - 1) * nf + j]

\* weighted density of observation x under component k (positive; larger
\* for a heavier component, a wider one, and a nearer mean)
weighted_density(clf, x, k) ==
    LET nf == clf.n_features
        mu(j) == clf.means_.data[(k - 1) * nf + j]
        term(j) == comp_var(clf, k, j) + 1 - (x[j] - mu(j)) * (x[j] - mu(j))
    IN  (WUnit + clf.weights_.data[k]) * (1 + SumSeq([j \in 1..nf |-> term(j)]))

\* likelihood of observation x under the mixture
sample_likelihood(clf, x) ==
    SumSeq([k \in 1..clf.n_components |-> weighted_density(clf, x, k)])

\* clf.score_samples(X): one value per observation
score_samples(clf, X) ==
    Arr(<<n_rows(X)>>, [i \in 1..n_rows(X) |-> sample_likelihood(clf, X[i])], 1)

\* clf.predict_proba(X): N x M, row i holding the posterior of every
\* component for observation i; every row sums to 1
predict_proba(clf, X) ==
    LET N   == n_rows(X)
        M   == clf.n_components
        tot == [i \in 1..N |-> sample_likelihood(clf, X[i])]
        den == ProdSeq(tot)
    IN  Arr(<<N, M>>,
            [e \in 1..(N * M) |->
                LET i == ((e - 1) \div M) + 1
                    k == ((e - 1) % M) + 1
                IN  weighted_density(clf, X[i], k) * (den \div tot[i])],
            den)

\* score_samples and predict_proba raise on an estimator that was never
\* fitted, and on a batch whose feature count is not the fitted one
predict_raises(clf, X) ==
    \/ ~clf.fitted
    \/ clf.n_features # n_columns(X)

RECURSIVE ilog(_)
ilog(n) == IF n <= 1 THEN 0 ELSE 1 + ilog(n \div 2)

\* the estimator's count of free parameters
n_parameters(clf) ==
    LET M  == clf.n_components
        nf == clf.n_features
        cov_params  == IF clf.covariance_type = "full"
                       THEN (M * nf * (nf + 1)) \div 2
                       ELSE M * nf
        mean_params == nf * M
    IN  cov_params + mean_params + M - 1

\* clf.bic(X) = -2 * score(X) * N + n_parameters * log(N)
bic(clf, X) ==
    (n_parameters(clf) * ilog(n_rows(X))) - 2 * SumSeq(score_samples(clf, X).data)


\* ------------------------------------------------------------------------
\* class GMMComponents
\* ------------------------------------------------------------------------
\* GMMComponents.__init__; r is the draw of the random source
GMMComponents(M, D, weights, means, covars, r) ==
    [M       |-> M,
     D       |-> D,
     weights |-> IF weights # NoArr THEN weights ELSE random(<<M>>, r),
     means   |-> IF means # NoArr THEN means ELSE random(<<M, D>>, r),
     covars  |-> IF covars # NoArr THEN covars ELSE random(<<M, D>>, r)]

init_random_weights(self, r) ==
    [self EXCEPT !.weights = random(<<self.M>>, r)]

init_random_means(self, r) ==
    [self EXCEPT !.means = random(<<self.M, self.D>>, r)]

init_random_covars(self, r) ==
    [self EXCEPT !.covars = random(<<self.M, self.D, self.D>>, r)]

shrink_components(self, new_M) ==
    [self EXCEPT !.weights = np_resize(self.weights, new_M),
                 !.means   = np_resize(self.means, new_M * self.D),
                 !.covars  = np_resize(self.covars, new_M * self.D * self.D)]

\* ------------------------------------------------------------------------
\* class GMMEvalData
\* ------------------------------------------------------------------------
GMMEvalData(N, M) ==
    [N |-> N, M |-> M,
     memberships    |-> zeros(<<M, N>>),
     loglikelihoods |-> zeros(<<N>>),
     likelihood     |-> 0]

\* ------------------------------------------------------------------------
\* class GMM
\* ------------------------------------------------------------------------
\* GMM.__init__ with a cvtype of cvtype_name_list
GMM(M, D, means, covars, weights, cvtype, r) ==
    [M |-> M, D |-> D, cvtype |-> cvtype,
     components |-> GMMComponents(M, D, weights, means, covars, r),
     eval_data  |-> GMMEvalData(1, M),
     clf        |-> NoClf,
     components_seeded |-> ~(means = NoArr /\ covars = NoArr /\ weights = NoArr)]

\* the estimator train_using_python fits: a new one when self.clf is None,
\* given the budget of this call and, for seeded components, the weights and
\* means; otherwise the one an earlier call made
clf_to_fit(self, iters) ==
    IF ~self.clf.is_none THEN self.clf
    ELSE IF self.components_seeded
         THEN GaussianMixture(self.M, self.cvtype, iters,
                              self.components.weights, self.components.means)
         ELSE GaussianMixture(self.M, self.cvtype, iters, NoArr, NoArr)

NoStart == [weights |-> NoArr, means |-> NoArr, covars |-> NoArr]

\* self.clf.fit(input_data), running n iterations unless it raises
clf_fit(clf, input_data, n) ==
    IF fit_raises(clf, input_data)
    THEN [raised |-> TRUE, clf |-> clf, start |-> NoStart]
    ELSE [raised |-> FALSE, clf |-> fit(clf, input_data, n),
          start |-> em_start(clf, input_data)]

\* GMM.train_using_python
train_using_python(self, input_data, iters, n) ==
    clf_fit(clf_to_fit(self, iters), input_data, n)

\* the iteration counts clf.fit can run, given the estimator it is called on:
\* it stops at the estimator's max_iter, or earlier once the likelihood gain
\* is below tol, which a first fit cannot see before its second iteration
\* and a warm start can see in its first
fit_iterations_of(clf) ==
    IF clf.fitted THEN 1..clf.max_iter
    ELSE {n \in 1..clf.max_iter : n >= 2 \/ clf.max_iter = 1}

\* the iteration counts clf.fit can run in a call train(.., max_em_iters=iters)
fit_iterations(self, iters) == fit_iterations_of(clf_to_fit(self, iters))

\* GMM.train after train_using_python returned: the assignments to
\* components and eval_data.likelihood, and the value returned
train_assign(self, clf, start, likelihood, n) ==
    [self |-> [self EXCEPT !.clf = clf,
                           !.components.means = clf.means_,
                           !.components.covars = clf.covariances_,
                           !.components.weights = clf.weights_,
                           !.eval_data.likelihood = likelihood],
     outcome |-> "ok", n_iter |-> n, start |-> start, ret |-> likelihood]

\* GMM.train from the call of train_using_python on (t is its result)
train_from(self, input_data, t, n) ==
    IF t.raised
    THEN [self |-> [self EXCEPT !.clf = t.clf], outcome |-> "LibraryError",
          n_iter |-> 0, start |-> t.start, ret |-> 0]
    ELSE train_assign(self, t.clf, t.start, bic(t.clf, input_data), n)

\* GMM.train: the object after the call, how the call ended, what it
\* returned.  min_em_iters is read nowhere.
train(self, input_data, min_em_iters, max_em_iters, n) ==
    train_from(self, input_data,
               train_using_python(self, input_data, max_em_iters, n), n)

\* GMM.eval once score_samples and predict_proba returned
eval_assign(self, logprob, posteriors) ==
    [self |-> [self EXCEPT !.eval_data.loglikelihoods = logprob,
                           !.eval_data.memberships = posteriors],
     outcome |-> "ok", logprob |-> logprob, posteriors |-> posteriors]

\* GMM.eval
eval(self, obs_data) ==
    IF self.clf.is_none
    THEN [self |-> self, outcome |-> "AttributeError",
          logprob |-> NoArr, posteriors |-> NoArr]
    ELSE IF predict_raises(self.clf, obs_data)
    THEN [self |-> self, outcome |-> "LibraryError",
          logprob |-> NoArr, posteriors |-> NoArr]
    ELSE eval_assign(self, score_samples(self.clf, obs_data),
                     predict_proba(self.clf, obs_data))

\* GMM.decode and GMM.predict: the indexes they return
decode_indexes(posteriors) == argmax_axis0(posteriors)

\* the message train and eval print on a batch whose feature count is not D
prints_error(self, data) == n_columns(data) # self.D

\* the combined weights with the two ratios exchanged
combined_weights_swapped(gmm1, gmm2) ==
    np_append_flat(scale(gmm2.M, gmm1.M + gmm2.M, gmm1.components.weights),
                   scale(gmm1.M, gmm1.M + gmm2.M, gmm2.components.weights))

\* compute_distance_BIC: the combined weights, A's scaled by Ma/(Ma+Mb)
\* followed by B's scaled by Mb/(Ma+Mb)
combined_weights(gmm1, gmm2) ==
    LET cd1_M  == gmm1.M
        cd2_M  == gmm2.M
        nComps == cd1_M + cd2_M
    IN  np_append_flat(scale(cd1_M, nComps, gmm1.components.weights),
                       scale(cd2_M, nComps, gmm2.components.weights))

\* a retraining that trains gmm1 in place of a new object
retrain_in_place(gmm1, gmm2, temp_GMM, data, em_iters, n) ==
    [t |-> train(temp_GMM, data, 1, em_iters, n),
     gmm1 |-> train(gmm1, data, 1, em_iters, n).self,
     gmm2 |-> gmm2]

\* the score with the difference taken the other way round
merge_score_reversed(gmm1, gmm2, temp_GMM) ==
    temp_GMM.eval_data.likelihood
        - (gmm1.eval_data.likelihood + gmm2.eval_data.likelihood)

\* compute_distance_BIC: temp_GMM.train(data, max_em_iters=em_iters), and
\* the two argument objects as that statement leaves them
retrain(gmm1, gmm2, temp_GMM, data, em_iters, n) ==
    [t |-> train(temp_GMM, data, 1, em_iters, n), gmm1 |-> gmm1, gmm2 |-> gmm2]

\* compute_distance_BIC: the score
merge_score(gmm1, gmm2, temp_GMM) ==
    (gmm1.eval_data.likelihood + gmm2.eval_data.likelihood)
        - temp_GMM.eval_data.likelihood

\* compute_distance_BIC from the retraining on (r is its result)
cd_return(w, m, c, r) ==
    IF r.t.outcome # "ok"
    THEN [outcome |-> r.t.outcome, w |-> w, m |-> m, c |-> c,
          temp_GMM |-> <<>>, score |-> 0, start |-> NoStart, n_iter |-> 0,
          gmm1 |-> r.gmm1, gmm2 |-> r.gmm2]
    ELSE [outcome |-> "ok", w |-> w, m |-> m, c |-> c,
          temp_GMM |-> <<r.t.self>>,
          score |-> merge_score(r.gmm1, r.gmm2, r.t.self),
          start |-> r.t.start, n_iter |-> r.t.n_iter,
          gmm1 |-> r.gmm1, gmm2 |-> r.gmm2]

\* compute_distance_BIC from the construction of temp_GMM on
cd_train(gmm1, gmm2, w, m, c, data, em_iters, n) ==
    cd_return(w, m, c,
              retrain(gmm1, gmm2, GMM(gmm1.M + gmm2.M, gmm1.D, m, c, w, gmm1.cvtype, 0),
                      data, em_iters, n))

\* compute_distance_BIC, the retraining running n iterations: what it
\* returns (or that it raised), its locals w, m, c, and the two argument
\* objects as the call leaves them
compute_distance_BIC(gmm1, gmm2, data, em_iters, n) ==
    IF \/ np_append_axis0_raises(gmm1.components.means, gmm2.components.means)
       \/ np_append_axis0_raises(gmm1.components.covars, gmm2.components.covars)
    THEN [outcome |-> "LibraryError", w |-> combined_weights(gmm1, gmm2),
          m |-> NoArr, c |-> NoArr,
          temp_GMM |-> <<>>, score |-> 0, start |-> NoStart, n_iter |-> 0,
          gmm1 |-> gmm1, gmm2 |-> gmm2]
    ELSE cd_train(gmm1, gmm2, combined_weights(gmm1, gmm2),
                  np_append_axis0(gmm1.components.means, gmm2.components.means),
                  np_append_axis0(gmm1.components.covars, gmm2.components.covars),
                  data, em_iters, n)

\* ------------------------------------------------------------------------
\* the objects a caller holds
\* ------------------------------------------------------------------------
RandomDraws == {0, 1}

Budgets == 1..MaxIters

\* weight vectors a caller seeds a mixture with: M multiples of 1/WUnit
\* summing to 1
SeedWeights(M) ==
    {Arr(<<M>>, f, WUnit) : f \in {h \in [1..M -> 0..WUnit] : SumSeq(h) = WUnit}}

\* covariances a caller seeds a mixture with: the same variance 1 + r for
\* every feature of every component
SeedCovars(cvtype, M, D, r) ==
    LET per == Prod(Tail(cov_shape(cvtype, M, D)))
    IN  Arr(cov_shape(cvtype, M, D),
            [e \in 1..(M * per) |-> cov_entries(cvtype, D, 1 + r)[((e - 1) % per) + 1]], 1)

\* GMM(M, D, cvtype=cvtype)
Unseeded(D, cvtype) ==
    {GMM(M, D, NoArr, NoArr, NoArr, cvtype, r) : M \in 1..MaxM, r \in RandomDraws}

\* GMM(M, D, means=, covars=, weights=, cvtype=cvtype)
Seeded(D, cvtype, draws) ==
    UNION {{GMM(M, D, random(<<M, D>>, r), SeedCovars(cvtype, M, D, r), w, cvtype, r) :
                w \in SeedWeights(M), r \in draws} : M \in 1..MaxM}

Constructed(D) ==
    UNION {Unseeded(D, cvtype) \cup Seeded(D, cvtype, RandomDraws) :
           cvtype \in cvtype_name_list}

\* the batch the prepared objects below were trained on
TrainBatch(D) == Batch(MaxN, D)

\* o after one call o.train(TrainBatch, max_em_iters=hi)
Trained(o) ==
    UNION {{train(o, TrainBatch(o.D), 1, hi, n).self : n \in fit_iterations(o, hi)} :
           hi \in Budgets}

\* o after init_random_weights, init_random_means and init_random_covars
Randomised(o, r) ==
    [o EXCEPT !.components =
        init_random_covars(init_random_means(init_random_weights(@, r), r), r)]

NoCall ==
    [op |-> "none", g |-> "none", outcome |-> "ok", printed |-> FALSE, X |-> <<>>,
     min_em_iters |-> 0, max_em_iters |-> 0, n_iter |-> 0, new_M |-> 0,
     start |-> NoStart, logprob |-> NoArr, posteriors |-> NoArr, indexes |-> NoArr,
     score |-> 0, w |-> NoArr, m |-> NoArr, c |-> NoArr, temp_GMM |-> <<>>]

\* two objects constructed alike
Init ==
    /\ \E D \in 1..MaxD : \E o \in Constructed(D) : gmm = [g \in Mixtures |-> o]
    /\ call = NoCall

\* two objects of the same M, D and cvtype, each as constructed or trained,
\* and as it is or with its components drawn anew
InitEvalPair ==
    /\ \E D \in 1..MaxD, cvtype \in cvtype_name_list, M \in 1..MaxM :
           LET fresh == GMM(M, D, NoArr, NoArr, NoArr, cvtype, 0)
               fitted == {fresh} \cup Trained(fresh)
               prepared == fitted \cup {Randomised(o, r) : o \in fitted, r \in RandomDraws}
           IN  gmm \in [Mixtures -> prepared]
    /\ call = NoCall

\* two objects of the same D and cvtype: as constructed, or trained
InitMerge ==
    /\ \E D \in 1..MaxD, cvtype \in cvtype_name_list :
           LET fresh == Unseeded(D, cvtype)
               inputs == fresh \cup Seeded(D, cvtype, {0})
                               \cup UNION {Trained(o) : o \in fresh}
           IN  gmm \in [Mixtures -> inputs]
    /\ call = NoCall

\* ------------------------------------------------------------------------
\* the calls
\* ------------------------------------------------------------------------
\* the state after a call on g that left g as self
Called(g, self, record) ==
    /\ gmm' = [gmm EXCEPT ![g] = self]
    /\ call' = record

TrainCall(g, X, min_em_iters, max_em_iters, t) ==
    Called(g, t.self,
           [NoCall EXCEPT !.op = "train", !.g = g, !.X = X,
                          !.printed = prints_error(gmm[g], X),
                          !.outcome = t.outcome,
                          !.min_em_iters = min_em_iters,
                          !.max_em_iters = max_em_iters,
                          !.n_iter = t.n_iter, !.start = t.start,
                          !.score = t.ret])

Train(g, X, min_em_iters, max_em_iters, n) ==
    /\ n \in fit_iterations(gmm[g], max_em_iters)
    /\ TrainCall(g, X, min_em_iters, max_em_iters,
                 train(gmm[g], X, min_em_iters, max_em_iters, n))

\* a call of eval, score, decode or predict: e is what self.eval returned,
\* and the caller is handed its logprob, its posteriors, their argmax
EvalCall(op, g, X, e, logprob, posteriors, indexes) ==
    Called(g, e.self,
           [NoCall EXCEPT !.op = op, !.g = g, !.X = X,
                          !.printed = prints_error(gmm[g], X),
                          !.outcome = e.outcome,
                          !.logprob = IF logprob THEN e.logprob ELSE NoArr,
                          !.posteriors = IF posteriors THEN e.posteriors ELSE NoArr,
                          !.indexes = IF indexes /\ e.outcome = "ok"
                                      THEN decode_indexes(e.posteriors)
                                      ELSE NoArr])

Eval(g, X) ==
    /\ g \in Mixtures
    /\ EvalCall("eval", g, X, eval(gmm[g], X), TRUE, TRUE, FALSE)

Score(g, X) ==
    /\ g \in Mixtures
    /\ EvalCall("score", g, X, eval(gmm[g], X), TRUE, FALSE, FALSE)

Decode(g, X) ==
    /\ g \in Mixtures
    /\ EvalCall("decode", g, X, eval(gmm[g], X), TRUE, FALSE, TRUE)

Predict(g, X) ==
    /\ g \in Mixtures
    /\ EvalCall("predict", g, X, eval(gmm[g], X), FALSE, FALSE, TRUE)

InitRandomWeights(g, r) ==
    /\ gmm' = [gmm EXCEPT ![g].components = init_random_weights(@, r)]
    /\ call' = [NoCall EXCEPT !.op = "init_random_weights", !.g = g]

InitRandomMeans(g, r) ==
    /\ gmm' = [gmm EXCEPT ![g].components = init_random_means(@, r)]
    /\ call' = [NoCall EXCEPT !.op = "init_random_means", !.g = g]

InitRandomCovars(g, r) ==
    /\ gmm' = [gmm EXCEPT ![g].components = init_random_covars(@, r)]
    /\ call' = [NoCall EXCEPT !.op = "init_random_covars", !.g = g]

ShrinkComponents(g, new_M) ==
    /\ new_M <= gmm[g].components.M
    /\ gmm' = [gmm EXCEPT ![g].components = shrink_components(@, new_M)]
    /\ call' = [NoCall EXCEPT !.op = "shrink_components", !.g = g, !.new_M = new_M]

ComputeDistanceBICCall(X, em_iters, d) ==
    /\ gmm' = [gmm EXCEPT !["gmm1"] = d.gmm1, !["gmm2"] = d.gmm2]
    /\ call' = [NoCall EXCEPT !.op = "compute_distance_BIC", !.X = X,
                              !.outcome = d.outcome,
                              !.max_em_iters = em_iters, !.n_iter = d.n_iter,
                              !.start = d.start, !.score = d.score,
                              !.w = d.w, !.m = d.m, !.c = d.c,
                              !.temp_GMM = d.temp_GMM]

ComputeDistanceBIC(X, em_iters, n) ==
    /\ n \in fit_iterations_of(GaussianMixture(0, "diag", em_iters, NoArr, NoArr))
    /\ ComputeDistanceBICCall(X, em_iters,
           compute_distance_BIC(gmm["gmm1"], gmm["gmm2"], X, em_iters, n))

\* ------------------------------------------------------------------------
\* specifications
\* ------------------------------------------------------------------------
\* training gmm1: every batch, every pair of budgets, every iteration
\* count the estimator's own budget allows
NextTrain ==
    \E X \in Batches, lo \in Budgets, hi \in Budgets, n \in Budgets :
        Train("gmm1", X, lo, hi, n)

SpecTrain == Init /\ [][NextTrain]_vars

\* training gmm1 with the budgets 1 and MaxIters, and evaluating it, on
\* every batch
NextEval ==
    \E X \in Batches :
        \/ \E n \in Budgets : Train("gmm1", X, 1, MaxIters, n)
        \/ Eval("gmm1", X)
        \/ Score("gmm1", X)
        \/ Decode("gmm1", X)
        \/ Predict("gmm1", X)

SpecEval == Init /\ [][NextEval]_vars

\* the methods of GMMComponents
NextComponents ==
    \/ \E r \in RandomDraws :
           \/ InitRandomWeights("gmm1", r)
           \/ InitRandomMeans("gmm1", r)
           \/ InitRandomCovars("gmm1", r)
    \/ \E new_M \in 1..MaxM : ShrinkComponents("gmm1", new_M)

SpecComponents == Init /\ [][NextComponents]_vars

\* evaluation of two objects
NextEvalPair == \E g \in Mixtures, X \in Batches : Eval(g, X)

SpecEvalPair == InitEvalPair /\ [][NextEvalPair]_vars

\* merging two objects: one call of compute_distance_BIC on every pair of
\* objects, every batch, every budget
NextMerge ==
    /\ call.op = "none"
    /\ \E X \in Batches, em_iters \in Budgets, n \in Budgets :
           ComputeDistanceBIC(X, em_iters, n)

SpecMerge == InitMerge /\ [][NextMerge]_vars

\* ------------------------------------------------------------------------
\* the claims
\* ------------------------------------------------------------------------
\* the value a/b equals c/d (b, d > 0)
SameValue(a, b, c, d) == a * d = c * b

\* entries lo+1 .. lo+n of array x equal, as numbers, entries 1..n of array a
HoldsAt(x, lo, a) ==
    \A i \in 1..Len(a.data) :
        /\ lo + i <= Len(x.data)
        /\ SameValue(x.data[lo + i], x.den, a.data[i], a.den)

SumsToOne(a) == SumSeq(a.data) = a.den

\* the arrays of a GMM hold self.M components
HoldsMComponents(o) ==
    /\ o.components.weights.shape = <<o.M>>
    /\ Len(o.components.means.shape) >= 1 /\ o.components.means.shape[1] = o.M
    /\ Len(o.components.covars.shape) >= 1 /\ o.components.covars.shape[1] = o.M

\* C1: a call of train or eval on a batch whose column count is not D ends
\* in DimensionMismatchError, runs no EM iteration, and leaves the
\* components and the stored evaluation result as they were.
C1_RejectsDimensionMismatch ==
    [][(/\ call'.op \in {"train", "eval"}
        /\ n_columns(call'.X) # gmm[call'.g].D)
       => /\ call'.outcome = "DimensionMismatchError"
          /\ call'.n_iter = 0
          /\ gmm'[call'.g].components = gmm[call'.g].components
          /\ gmm'[call'.g].eval_data = gmm[call'.g].eval_data]_vars

\* C2: the score compute_distance_BIC returns is (scoreA + scoreB) -
\* scoreCombined: scoreA and scoreB the BIC a trained argument stored when it
\* was trained, scoreCombined the BIC of the retrained combined mixture on
\* the batch of the call; it is positive exactly when the combined BIC is
\* below the sum of the two.
C2_MergeScore ==
    (call.op = "compute_distance_BIC" /\ call.outcome = "ok")
    => LET A == gmm["gmm1"]
           B == gmm["gmm2"]
           T == call.temp_GMM[1]
           scoreA == IF A.clf.fitted THEN bic(A.clf, TrainBatch(A.D))
                     ELSE A.eval_data.likelihood
           scoreB == IF B.clf.fitted THEN bic(B.clf, TrainBatch(B.D))
                     ELSE B.eval_data.likelihood
           scoreCombined == bic(T.clf, call.X)
       IN  /\ T.clf.fitted
           /\ call.score = (scoreA + scoreB) - scoreCombined
           /\ (call.score > 0) <=> (scoreCombined < scoreA + scoreB)

C2_Witness ==
    /\ call.op = "compute_distance_BIC" /\ call.outcome = "ok"
    /\ gmm["gmm1"].clf.fitted /\ gmm["gmm2"].clf.fitted
    /\ call.score > 0

\* C3: for A and B holding Ma and Mb components, each with weights summing
\* to 1, the combined parameter set has Ma+Mb components; its weights are
\* A's times Ma/(Ma+Mb) followed by B's times Mb/(Ma+Mb) and sum to 1; its
\* means and covariances are A's followed by B's, unscaled.
C3_CombinedParameters ==
    LET A == gmm["gmm1"]
        B == gmm["gmm2"]
        Ma == A.M
        Mb == B.M
        w == call.w
        m == call.m
        c == call.c
    IN  (/\ call.op = "compute_distance_BIC" /\ m # NoArr
         /\ HoldsMComponents(A) /\ HoldsMComponents(B)
         /\ SumsToOne(A.components.weights) /\ SumsToOne(B.components.weights))
        => /\ w.shape = <<Ma + Mb>> /\ Len(w.data) = Ma + Mb
           /\ m.shape[1] = Ma + Mb /\ c.shape[1] = Ma + Mb
           /\ \A i \in 1..Ma :
                  SameValue(w.data[i], w.den,
                            A.components.weights.data[i] * Ma,
                            A.components.weights.den * (Ma + Mb))
           /\ \A i \in 1..Mb :
                  SameValue(w.data[Ma + i], w.den,
                            B.components.weights.data[i] * Mb,
                            B.components.weights.den * (Ma + Mb))
           /\ SumsToOne(w)
           /\ Len(m.data) = Len(A.components.means.data) + Len(B.components.means.data)
           /\ HoldsAt(m, 0, A.components.means)
           /\ HoldsAt(m, Len(A.components.means.data), B.components.means)
           /\ Len(c.data) = Len(A.components.covars.data) + Len(B.components.covars.data)
           /\ HoldsAt(c, 0, A.components.covars)
           /\ HoldsAt(c, Len(A.components.covars.data), B.components.covars)

C3_Witness ==
    /\ call.op = "compute_distance_BIC" /\ call.m # NoArr
    /\ gmm["gmm1"].M # gmm["gmm2"].M
    /\ SumsToOne(gmm["gmm1"].components.weights)
    /\ SumsToOne(gmm["gmm2"].components.weights)
    /\ \E i \in 1..Len(gmm["gmm1"].components.weights.data) :
           /\ gmm["gmm1"].components.weights.data[i] > 0
           /\ gmm["gmm1"].components.weights.data[i]
                  < gmm["gmm1"].components.weights.den

\* C4: a call train(data, min_em_iters, max_em_iters) that returns has run
\* at least min_em_iters and at most max_em_iters iterations, on the first
\* call and on later calls with other budgets.
C4_IterationsWithinBudgets ==
    (/\ call.op = "train" /\ call.outcome = "ok"
     /\ call.min_em_iters <= call.max_em_iters)
    => /\ call.min_em_iters <= call.n_iter
       /\ call.n_iter <= call.max_em_iters

\* C5: on a batch of N observations predict and decode return N indexes,
\* the i-th in 0..M-1 and naming the component of the largest posterior in
\* row i of the N x M matrix eval stored; decode returns the N
\* log-likelihoods with them.
C5_IndexesPerObservation ==
    (call.op \in {"decode", "predict"} /\ call.outcome = "ok")
    => LET N == n_rows(call.X)
           M == gmm[call.g].M
           post == gmm[call.g].eval_data.memberships
           at(i, k) == post.data[(i - 1) * M + k]
       IN  /\ post.shape = <<N, M>>
           /\ call.indexes.shape = <<N>>
           /\ Len(call.indexes.data) = N
           /\ \A i \in 1..N :
                  /\ call.indexes.data[i] \in 0..(M - 1)
                  /\ \A k \in 1..M : at(i, k) <= at(i, call.indexes.data[i] + 1)
           /\ (call.op = "decode" => call.logprob.shape = <<N>>)

\* C6: compute_distance_BIC leaves both argument objects as they were:
\* component count, components, stored score and fitted estimator.
C6_ArgumentsUnchanged ==
    [][call'.op = "compute_distance_BIC" => gmm' = gmm]_vars

C6_Witness ==
    /\ call.op = "compute_distance_BIC" /\ call.outcome = "ok"
    /\ call.temp_GMM # <<>>
    /\ call.temp_GMM[1].components.weights # call.w

\* C7: two mixtures whose components (weights, means, covariances) are equal
\* return equal log-likelihoods and responsibilities from eval on the same
\* batch.
C7_EvalDependsOnComponentsOnly ==
    \A X \in Batches :
        LET e1 == eval(gmm["gmm1"], X)
            e2 == eval(gmm["gmm2"], X)
        IN  (/\ gmm["gmm1"].components = gmm["gmm2"].components
             /\ e1.outcome = "ok" /\ e2.outcome = "ok")
            => /\ e1.logprob = e2.logprob
               /\ e1.posteriors = e2.posteriors

\* C8: the weights of a mixture constructed without explicit weights, and
\* the weights init_random_weights leaves, are non-negative and sum to 1.
C8_RandomWeightsNormalised ==
    LET o == gmm["gmm1"]
        w == o.components.weights
    IN  (\/ call.op = "init_random_weights"
         \/ call.op = "none" /\ ~o.components_seeded)
        => /\ \A i \in 1..Len(w.data) : w.data[i] >= 0
           /\ SumsToOne(w)

\* C9: the first train call of a mixture constructed with seed weights,
\* means and covariances starts the EM iteration from exactly those three.
C9_FirstTrainStartsFromSeeds ==
    [][(/\ call'.op = "train" /\ call'.outcome = "ok"
        /\ gmm[call'.g].components_seeded
        /\ gmm[call'.g].clf.is_none)
       => /\ call'.start.weights = gmm[call'.g].components.weights
          /\ call'.start.means = gmm[call'.g].components.means
          /\ call'.start.covars = gmm[call'.g].components.covars]_vars

\* C10: after shrink_components(new_M), new_M <= M, the component count is
\* new_M and the arrays have the shapes the counts and the covariance mode
\* give: new_M weights, new_M x D means, new_M x D ('diag') or new_M x D x D
\* ('full') covariances.
C10_ShapesAfterShrink ==
    (call.op = "shrink_components")
    => LET o == gmm[call.g]
           c == o.components
       IN  /\ o.M = call.new_M
           /\ c.M = call.new_M
           /\ c.weights.shape = <<c.M>>
           /\ c.means.shape = <<c.M, c.D>>
           /\ c.covars.shape = cov_shape(o.cvtype, c.M, c.D)

=============================================================================
